---- MODULE Spec2Model ----
(***************************************************************************)
(* AeroCog UAV orchestration pipeline (src/agentic/orchestrator_demo.py,   *)
(* src/orchestrator_demo.py, src/agentic/test_prompts.py):                 *)
(*   command text + detection frames -> parse_user_prompt,                 *)
(*   summarize_video_features -> prompts -> call_llm -> json.loads ->      *)
(*   validate_payload -> outcome.                                          *)
(*                                                                         *)
(* Python values are modelled as follows.                                  *)
(*  - A dict whose keys may be absent is a record whose DOMAIN is the set  *)
(*    of keys present (d.get(k) reads k \in DOMAIN d).                     *)
(*  - A decoded JSON value is a record [kind, has, ...]: kind is the JSON  *)
(*    type, has is what Python's `in` operator finds in it (the keys of an *)
(*    object, the string elements of an array, the substrings of a         *)
(*    string).                                                             *)
(*  - A call that may raise yields a record with field ret = "return" or   *)
(*    ret = "raise".                                                       *)
(***************************************************************************)
EXTENDS Integers, Sequences, FiniteSets, TLC

VARIABLES
    pc,                  \* position of the running operation
    runner,              \* "demo": orchestrator_demo.main; "harness": run_all_tests
    api_key,             \* os.environ.get("OPENAI_API_KEY")
    prompt_id,           \* 1-based index of the command being processed
    user_text,           \* parse_user_prompt's argument: the command text
    mission,             \* parse_user_prompt's result for the current command
    features,            \* summarize_video_features: input frames
    max_frames,          \* summarize_video_features: frame bound
    max_objs_per_frame,  \* summarize_video_features: per-frame object bound
    video_digest,        \* summarize_video_features: returned digest
    system_prompt,       \* build_system_prompt's result
    user_content,        \* build_user_content's result
    caller_schema,       \* a schema object a caller got from expected_payload_schema
    requests,            \* request modes call_llm has issued in this invocation
    resp,                \* call_llm: the structured path's response object
    llm_response,        \* the text call_llm returned
    exc,                 \* the exception that left the run uncaught ("" if none)
    payload,             \* validate_payload: the decoded document
    verdict,             \* validate_payload: its result (return or raise)
    printed,             \* demo runner: what the run printed as its outcome
    result,              \* harness: the record test_single_prompt returned
    results,             \* harness: run_all_tests' list of records
    trace,               \* the pipeline steps the current run has called, in order
    sleeps               \* harness: completed time.sleep(1) calls

digestVars == <<features, max_frames, max_objs_per_frame, video_digest>>
validateVars == <<payload, verdict>>
driverVars == <<runner, api_key, prompt_id>>
promptVars == <<user_text, mission, system_prompt, user_content, caller_schema>>
llmVars == <<requests, resp, llm_response>>
outcomeVars == <<exc, printed, result, results>>
pipelineVars == <<driverVars, promptVars, llmVars, outcomeVars, trace, sleeps>>
vars == <<pc, digestVars, validateVars, pipelineVars>>

(***************************************************************************)
(* Bounds of the model.                                                    *)
(***************************************************************************)
MaxFrames == 2     \* longest input frame sequence explored
MaxObjs == 2       \* longest object list of an input frame
MaxBound == 3      \* largest max_frames / max_objs_per_frame explored
NumPrompts == 2    \* commands the harness runs (the first of get_test_prompts)
MaxChunks == 2     \* longest "output" list of a structured response
MaxFragments == 3  \* longest command text explored, in fragments

Min(a, b) == IF a <= b THEN a ELSE b
Max(a, b) == IF a >= b THEN a ELSE b

(***************************************************************************)
(* Python list slicing: seq[start:] and seq[:stop] with Python's           *)
(* normalisation of negative and out-of-range indices.  Note -0 = 0.       *)
(***************************************************************************)
PyIndex(k, len) == IF k < 0 THEN Max(len + k, 0) ELSE Min(k, len)
PySliceFrom(seq, start) == SubSeq(seq, PyIndex(start, Len(seq)) + 1, Len(seq))
PySliceTo(seq, stop) == SubSeq(seq, 1, PyIndex(stop, Len(seq)))

(***************************************************************************)
(* d.get(key, default) on a dict modelled as a record.                     *)
(***************************************************************************)
NoneVal == "<None>"
Get(d, key, default) == IF key \in DOMAIN d THEN d[key] ELSE default

(***************************************************************************)
(* round(float(score), 3).  Scores are integers in units of 1e-4; the      *)
(* result is in units of 1e-3.  The scores of ObjSet are not ties.         *)
(***************************************************************************)
Round3(score) == (score + 5) \div 10

(***************************************************************************)
(* summarize_video_features(features, max_frames, max_objs_per_frame)      *)
(***************************************************************************)
TrimObject(o) ==
    [label |-> Get(o, "label", NoneVal),
     score |-> Round3(Get(o, "score", 0)),
     box   |-> Get(o, "box", 0)]    \* None is 0: every modelled object has a box

TrimObjects_ranked(fr, max_objs) ==
    LET objs == Get(fr, "objects", <<>>)
    IN PySliceTo(SelectSeq(objs, LAMBDA o : "score" \in DOMAIN o) \o
                 SelectSeq(objs, LAMBDA o : "score" \notin DOMAIN o), max_objs)

TrimObjects(fr, max_objs) == PySliceTo(Get(fr, "objects", <<>>), max_objs)

TrimFrame(fr, max_objs) ==
    LET objs == TrimObjects(fr, max_objs)
    IN [ts      |-> Get(fr, "ts", 0),
        objects |-> [j \in 1..Len(objs) |-> TrimObject(objs[j])]]

LastFrames_head(feats, maxf) == PySliceTo(feats, maxf)   \* features[:max_frames]
LastFrames(feats, maxf) == PySliceFrom(feats, -maxf)

summarize_video_features(feats, maxf, max_objs) ==
    IF feats = <<>> THEN <<>>
    ELSE LET frames == LastFrames(feats, maxf)
         IN [k \in 1..Len(frames) |-> TrimFrame(frames[k], max_objs)]

(***************************************************************************)
(* Input frames.  Frame j of a sequence carries ts = j (frames are         *)
(* time-ordered), so frames are told apart by their timestamp; an object   *)
(* list is any sequence over ObjSet, and a frame may lack "objects".       *)
(***************************************************************************)
ObjSet ==
    { [label |-> "house", score |-> 8126, box |-> 1],
      [label |-> "car", box |-> 2] }

ObjLists == UNION { [1..n -> ObjSet] : n \in 0..MaxObjs }

FrameBodies ==
    { b \in [has_objects : BOOLEAN, objs : ObjLists] :
        ~b.has_objects => b.objs = <<>> }

MkFrame(j, b) ==
    IF b.has_objects THEN [ts |-> j, objects |-> b.objs] ELSE [ts |-> j]

FeatureSeqs ==
    UNION { { [j \in 1..n |-> MkFrame(j, bs[j])] : bs \in [1..n -> FrameBodies] }
            : n \in 0..MaxFrames }

InputObjects(fr) == Get(fr, "objects", <<>>)

(***************************************************************************)
(* expected_payload_schema(): the "required" lists of the schema, at the   *)
(* top level and per property.                                             *)
(***************************************************************************)
expected_payload_schema ==
    [type |-> "object",
     required |-> <<"task_id", "mission", "environment_summary", "plan",
                    "safety", "server_payload">>,
     properties |->
        [task_id |-> [type |-> "string", required |-> <<>>],
         mission |-> [type |-> "object",
                      required |-> <<"intent", "targets", "constraints", "success">>],
         environment_summary |-> [type |-> "object",
                                  required |-> <<"video_digest">>],
         plan |-> [type |-> "object",
                   required |-> <<"high_level_steps", "next_action">>],
         safety |-> [type |-> "object",
                     required |-> <<"geofence", "altitude_min_m",
                                    "altitude_max_m", "low_battery_pct">>],
         server_payload |-> [type |-> "object",
                             required |-> <<"timestamp", "llm_version", "data">>]]]

Range(seq) == { seq[k] : k \in 1..Len(seq) }

(***************************************************************************)
(* Decoded JSON values.  A member value is [kind, has]; a top-level value  *)
(* is [kind, has, mission, environment_summary, plan], the three members   *)
(* validate_payload looks into (Absent when the key is not there).         *)
(***************************************************************************)
JsonKinds == {"object", "array", "string", "number", "null"}
Containers == {"object", "array", "string"}   \* kinds on which `in` is defined

TopKeys == Range(expected_payload_schema.required)
MissionKeys == {"intent", "targets", "constraints", "success"}
EnvKeys == {"video_digest"}
PlanKeys == {"high_level_steps", "next_action"}

Absent == [kind |-> "absent", has |-> {}]
NoPayload ==
    [kind |-> "absent", has |-> {}, mission |-> Absent,
     environment_summary |-> Absent, plan |-> Absent]

MemberValues(keys) ==
    { v \in [kind : JsonKinds, has : SUBSET keys] :
        v.kind \notin Containers => v.has = {} }

MemberOrAbsent(present, keys) == IF present THEN MemberValues(keys) ELSE {Absent}

TopHas(k) == IF k \in Containers THEN SUBSET TopKeys ELSE {{}}

MkJson(k, h, m, e, p) ==
    [kind |-> k, has |-> h, mission |-> m, environment_summary |-> e, plan |-> p]

(***************************************************************************)
(* Python's `key in value` and `value[key]` on a decoded JSON value:       *)
(* `in` is key membership on a dict, element membership on a list and      *)
(* substring search on a str, and raises TypeError on a number or None;    *)
(* value["key"] is defined on a dict only.                                 *)
(***************************************************************************)
InRaises(v) == v.kind \notin Containers
PyIn(key, v) == key \in v.has
GetItemRaises(v) == v.kind # "object"

NotIterable == "TypeError: value is not iterable or not subscriptable by key"
Return(ok, msg) == [ret |-> "return", ok |-> ok, msg |-> msg]
Raise(e) == [ret |-> "raise", ok |-> FALSE, msg |-> e]
NoVerdict == [ret |-> "none", ok |-> FALSE, msg |-> ""]

(***************************************************************************)
(* The order in which validate_payload walks the mission sub-keys.         *)
(***************************************************************************)
MissionOrder_ambiguities ==
    <<"intent", "targets", "constraints", "success", "ambiguities">>
MissionOrder == <<"intent", "targets", "constraints", "success">>

MissingKeys(order, v) == SelectSeq(order, LAMBDA k : ~PyIn(k, v))

RECURSIVE ListText(_)
ListText(seq) ==
    IF seq = <<>> THEN ""
    ELSE "'" \o Head(seq) \o "'" \o
         (IF Len(seq) > 1 THEN ", " ELSE "") \o ListText(Tail(seq))

MissingKeysMsg(missing) == "Missing keys: [" \o ListText(missing) \o "]"

(***************************************************************************)
(* validate_payload(payload)                                               *)
(***************************************************************************)
CheckPlan(p) ==
    IF GetItemRaises(p) \/ InRaises(p.plan) THEN Raise(NotIterable)
    ELSE IF ~PyIn("next_action", p.plan) THEN Return(FALSE, "plan.next_action missing")
    ELSE Return(TRUE, "ok")

CheckEnvironment(p) ==
    IF GetItemRaises(p) \/ InRaises(p.environment_summary) THEN Raise(NotIterable)
    ELSE IF ~PyIn("video_digest", p.environment_summary)
         THEN Return(FALSE, "environment_summary.video_digest missing")
    ELSE CheckPlan(p)

CheckMission(p) ==
    IF GetItemRaises(p) \/ InRaises(p.mission) THEN Raise(NotIterable)
    ELSE LET missing == MissingKeys(MissionOrder, p.mission)
         IN IF missing # <<>>
            THEN Return(FALSE, "mission." \o Head(missing) \o " missing")
            ELSE CheckEnvironment(p)

validate_payload(p) ==
    LET schema == expected_payload_schema
    IN IF InRaises(p) THEN Raise(NotIterable)
       ELSE LET missing == MissingKeys(schema.required, p)
            IN IF missing # <<>> THEN Return(FALSE, MissingKeysMsg(missing))
               ELSE CheckMission(p)

(***************************************************************************)
(* Command text.  A text is a sequence of fragments, cut so that no        *)
(* keyword phrase parse_user_prompt searches for straddles two fragments:  *)
(* `phrase in text.lower()` is then: the phrase is a substring of some     *)
(* lower-cased fragment.  Lower is str.lower() and Substrings the keyword  *)
(* phrases found inside a lower-cased fragment, on the fragments used.     *)
(***************************************************************************)
KeywordPhrases ==
    {"photo", "picture", "coffee shop", "red house", "open", "2 mile", "two mile"}

Lower(f) ==
    CASE f = "Photo" -> "photo"
      [] f = "PHOTO" -> "photo"
      [] f = "Picture" -> "picture"
      [] f = "Coffee Shop" -> "coffee shop"
      [] f = "Red House" -> "red house"
      [] f = "Open" -> "open"
      [] f = "Two Mile" -> "two mile"
      [] f = "Find the " -> "find the "
      [] f = "Search for " -> "search for "
      [] f = "Take a " -> "take a "
      [] f = "Navigate to the tallest building in the area and survey the surroundings."
           -> "navigate to the tallest building in the area and survey the surroundings."
      [] OTHER -> f

LowerText_none(text) == text
LowerText(text) == [k \in 1..Len(text) |-> Lower(text[k])]

Substrings(f) ==
    CASE f = "12 mile" -> {"2 mile"}
      [] f = "photograph" -> {"photo"}
      [] f \in KeywordPhrases -> {f}
      [] OTHER -> {}

Occurs(phrase, t) == \E k \in 1..Len(t) : phrase \in Substrings(t[k])

(***************************************************************************)
(* The intent names build_system_prompt announces to the model.            *)
(***************************************************************************)
IntentTaxonomy == {"capture_photo", "search_poi", "navigate", "survey"}

(***************************************************************************)
(* parse_user_prompt(text)                                                 *)
(***************************************************************************)
Intent_no_poi(t) ==
    IF Occurs("photo", t) \/ Occurs("picture", t) THEN "capture_photo" ELSE "navigate"

Intent(t) ==
    IF Occurs("photo", t) \/ Occurs("picture", t) THEN "capture_photo"
    ELSE IF Occurs("coffee shop", t) THEN "search_poi"
    ELSE "navigate"

Targets_open(t) ==
    (IF Occurs("red house", t) THEN <<"red house">> ELSE <<>>) \o
    (IF Occurs("coffee shop", t) THEN <<"coffee shop">> ELSE <<>>) \o
    (IF Occurs("open", t) THEN <<"open_now">> ELSE <<>>)

Targets_swapped(t) ==
    (IF Occurs("coffee shop", t)
     THEN <<"coffee shop">> \o (IF Occurs("open", t) THEN <<"open_now">> ELSE <<>>)
     ELSE <<>>) \o
    (IF Occurs("red house", t) THEN <<"red house">> ELSE <<>>)

Targets(t) ==
    (IF Occurs("red house", t) THEN <<"red house">> ELSE <<>>) \o
    (IF Occurs("coffee shop", t)
     THEN <<"coffee shop">> \o (IF Occurs("open", t) THEN <<"open_now">> ELSE <<>>)
     ELSE <<>>)

Constraints(t) ==
    IF Occurs("2 mile", t) \/ Occurs("two mile", t) THEN {<<"radius_m", 3218>>} ELSE {}

Success(intent) ==
    IF intent = "capture_photo" THEN {<<"photo_saved", TRUE>>}
    ELSE IF intent = "search_poi" THEN {<<"answer_yes_no", TRUE>>}
    ELSE {}

TargetsOrDefault_none(targets) == targets
TargetsOrDefault(targets) == IF targets # <<>> THEN targets ELSE <<"target">>

parse_user_prompt(text) ==
    LET t == LowerText(text)
        intent == Intent(t)
        targets == Targets(t)
    IN [intent      |-> intent,
        targets     |-> TargetsOrDefault(targets),
        constraints |-> Constraints(t),
        success     |-> Success(intent),
        ambiguities |-> <<>>]

NoMission == [intent |-> "", targets |-> <<>>, constraints |-> {}, success |-> {},
              ambiguities |-> <<>>]

(***************************************************************************)
(* The commands and frames of the two drivers.                             *)
(***************************************************************************)
get_test_prompts ==
    << <<"Find the ", "red house", " and take a ", "photo", ", then come back.">>,
       <<"Search for ", "coffee shop", "s within ", "2 mile",
         "s and tell me if any are ", "open", " now.">>,
       <<"Navigate to the tallest building in the area and survey the surroundings.">>,
       <<"Take a ", "photo", " of the car parked near the house.">> >>

Obj(label, score, box) == [label |-> label, score |-> score, box |-> box]

get_sample_video_features ==
    << [ts |-> 101, objects |-> <<Obj("house", 8100, 1), Obj("car", 7400, 2),
                                  Obj("person", 6800, 3)>>],
       [ts |-> 105, objects |-> <<Obj("red object", 6500, 4), Obj("building", 7900, 5),
                                  Obj("tree", 7200, 6)>>],
       [ts |-> 110, objects |-> <<Obj("house", 8600, 7), Obj("vehicle", 7100, 8),
                                  Obj("sign", 6300, 9)>>],
       [ts |-> 115, objects |-> <<Obj("construction", 7700, 10), Obj("crane", 6900, 11),
                                  Obj("worker", 5800, 12)>>],
       [ts |-> 120, objects |-> <<Obj("park", 8200, 13), Obj("bench", 6400, 14),
                                  Obj("dog", 5900, 15)>>] >>

raw_features ==
    << [ts |-> 101, objects |-> <<Obj("house", 8100, 1), Obj("car", 7400, 2)>>],
       [ts |-> 105, objects |-> <<Obj("red object", 6500, 4)>>],
       [ts |-> 110, objects |-> <<Obj("house", 8600, 7)>>] >>

Prompts(r) == IF r = "demo" THEN <<get_test_prompts[1]>>
              ELSE SubSeq(get_test_prompts, 1, NumPrompts)
Frames(r) == IF r = "demo" THEN raw_features ELSE get_sample_video_features

(***************************************************************************)
(* build_system_prompt / build_user_content: the parts of the two strings  *)
(* that depend on the pipeline's data (the wall-clock time is left out).   *)
(***************************************************************************)
build_system_prompt == [schema |-> expected_payload_schema]

build_user_content(m, digest, extras) ==
    [mission |-> m, video_digest |-> digest, extras |-> extras,
     mission_priority |-> IF m.intent = "capture_photo" THEN "high" ELSE "medium",
     frames_noted |-> Len(digest)]

NoSchema == [type |-> "none"]
NoPrompt == [schema |-> NoSchema]
NoContent == [extras |-> 0]

(***************************************************************************)
(* The texts the model endpoint may answer with, and json.loads on them.   *)
(***************************************************************************)
T_valid == "{\"task_id\":\"t1\",\"mission\":{\"intent\":\"navigate\",\"targets\":[],\"constraints\":{},\"success\":{}},\"environment_summary\":{\"video_digest\":[]},\"plan\":{\"high_level_steps\":[],\"next_action\":{}},\"safety\":{},\"server_payload\":{}}"
T_intent_only == "{\"task_id\":\"x\",\"mission\":{\"intent\":\"navigate\"},\"environment_summary\":{\"video_digest\":[]},\"plan\":{\"next_action\":{}},\"safety\":{},\"server_payload\":{}}"
T_missing_top == "{\"task_id\":\"x\",\"mission\":{}}"
T_mission_null == "{\"task_id\":\"x\",\"mission\":null,\"environment_summary\":{},\"plan\":{},\"safety\":{},\"server_payload\":{}}"
T_mission_list == "{\"task_id\":\"x\",\"mission\":[\"intent\",\"targets\",\"constraints\",\"success\"],\"environment_summary\":\"video_digest\",\"plan\":[\"next_action\"],\"safety\":{},\"server_payload\":{}}"

JsonTexts == {T_valid, T_intent_only, T_missing_top, T_mission_null, T_mission_list, "5", "null"}
LLMTexts == JsonTexts \cup {"not json"}

Member(k, h) == [kind |-> k, has |-> h]

Decoded(text) ==
    CASE text = T_valid ->
           MkJson("object", TopKeys, Member("object", MissionKeys),
                  Member("object", {"video_digest"}),
                  Member("object", {"high_level_steps", "next_action"}))
      [] text = T_intent_only ->
           MkJson("object", TopKeys, Member("object", {"intent"}),
                  Member("object", {"video_digest"}), Member("object", {"next_action"}))
      [] text = T_missing_top ->
           MkJson("object", {"task_id", "mission"}, Member("object", {}), Absent, Absent)
      [] text = T_mission_null ->
           MkJson("object", TopKeys, Member("null", {}),
                  Member("object", {}), Member("object", {}))
      [] text = T_mission_list ->
           MkJson("object", TopKeys, Member("array", MissionKeys),
                  Member("string", {"video_digest"}), Member("array", {"next_action"}))
      [] text = "5" -> MkJson("number", {}, Absent, Absent, Absent)
      [] text = "null" -> MkJson("null", {}, Absent, Absent, Absent)

(* json.loads(text): a JSONDecodeError on text that is not JSON, a         *)
(* TypeError on None, the decoded value otherwise.                         *)
json_loads(text) ==
    IF text = NoneVal
    THEN [ret |-> "raise", error |-> "TypeError: the JSON object must be str",
          value |-> NoPayload]
    ELSE IF text \notin JsonTexts
         THEN [ret |-> "raise", error |-> "JSONDecodeError", value |-> NoPayload]
    ELSE [ret |-> "return", error |-> "", value |-> Decoded(text)]

(***************************************************************************)
(* call_llm: the structured path's response object and the text the code   *)
(* extracts from it (output_text, else the first non-empty text of an      *)
(* "output_text" chunk of the output list).                                *)
(***************************************************************************)
Truthy(x) == x \notin {NoneVal, ""}

RECURSIVE ChunkText(_, _)
ChunkText(chunks, content) ==
    IF chunks = <<>> THEN content
    ELSE IF Head(chunks).type = "output_text"
         THEN IF Truthy(Head(chunks).text) THEN Head(chunks).text
              ELSE ChunkText(Tail(chunks), Head(chunks).text)
         ELSE ChunkText(Tail(chunks), content)

ExtractText_convenience_only(r) == r.output_text

ExtractText(r) ==
    IF Truthy(r.output_text) THEN r.output_text
    ELSE IF r.is_list THEN ChunkText(r.output, r.output_text)
    ELSE r.output_text

Chunks(t) ==
    { [type |-> "output_text", text |-> t],
      [type |-> "output_text", text |-> ""],
      [type |-> "message", text |-> t] }

Responses(t) ==
    { r \in [output_text : {NoneVal, "", t}, is_list : BOOLEAN,
             output : UNION { [1..n -> Chunks(t)] : n \in 0..MaxChunks }] :
        ~r.is_list => r.output = <<>> }

NoResp == [output_text |-> NoneVal, is_list |-> FALSE, output |-> <<>>]

Request(mode, outcome) == [mode |-> mode, outcome |-> outcome]

(***************************************************************************)
(* The arguments the drivers pass to summarize_video_features.             *)
(***************************************************************************)
DriverMaxFrames == 3
DriverMaxObjs == 3

(***************************************************************************)
(* Outcome of a run.                                                       *)
(***************************************************************************)
PromptText == Prompts(runner)[prompt_id]

ErrorRecord(e) ==
    [prompt_id |-> prompt_id, prompt_text |-> PromptText, error |-> e]

ResultRecord(v) ==
    [prompt_id |-> prompt_id, prompt_text |-> PromptText,
     mission_parsed |-> mission, video_digest |-> video_digest,
     llm_response |-> llm_response, payload |-> payload,
     is_valid |-> v.ok, validation_msg |-> v.msg]

NoResult == [prompt_id |-> 0]

Line(line, text, doc) == [line |-> line, text |-> text, doc |-> doc]

(* An exception leaves the step: main does not catch it (the process ends  *)
(* with a traceback); test_single_prompt's `except Exception` turns it     *)
(* into an error record.                                                   *)
Propagate_uncaught(e) ==
    /\ pc' = "crashed"
    /\ exc' = e
    /\ UNCHANGED <<printed, result, results>>

Propagate(e) ==
    IF runner = "demo"
    THEN /\ pc' = "crashed"
         /\ exc' = e
         /\ UNCHANGED <<printed, result, results>>
    ELSE /\ pc' = "append"
         /\ result' = ErrorRecord(e)
         /\ UNCHANGED <<exc, printed, results>>

(***************************************************************************)
(* The pipeline, step by step.                                             *)
(***************************************************************************)
ValidateIdle == payload = NoPayload /\ verdict = NoVerdict
DigestIdle ==
    features = <<>> /\ max_frames = 0 /\ max_objs_per_frame = 0 /\ video_digest = <<>>

RunIdle ==
    /\ runner = "none" /\ api_key = NoneVal /\ prompt_id = 0
    /\ caller_schema = NoSchema
    /\ mission = NoMission /\ system_prompt = NoPrompt /\ user_content = NoContent
    /\ requests = <<>> /\ resp = NoResp /\ llm_response = NoneVal
    /\ exc = "" /\ printed = <<>> /\ result = NoResult /\ results = <<>>
    /\ trace = <<>> /\ sleeps = 0

PipelineIdle == user_text = <<>> /\ RunIdle

Init ==
    /\ pc = "start"
    /\ runner \in {"demo", "harness"}
    /\ api_key \in {NoneVal, "", "sk-test"}
    /\ prompt_id = 1
    /\ user_text = <<>>
    /\ caller_schema = NoSchema
    /\ mission = NoMission /\ system_prompt = NoPrompt /\ user_content = NoContent
    /\ requests = <<>> /\ resp = NoResp /\ llm_response = NoneVal
    /\ exc = "" /\ printed = <<>> /\ result = NoResult /\ results = <<>>
    /\ trace = <<>> /\ sleeps = 0
    /\ DigestIdle
    /\ ValidateIdle

Extract ==
    /\ pc = "start"
    /\ user_text' = PromptText
    /\ mission' = parse_user_prompt(PromptText)
    /\ trace' = Append(trace, "parse_user_prompt")
    /\ pc' = "digest"
    /\ UNCHANGED <<digestVars, validateVars, driverVars, system_prompt, user_content,
                   caller_schema, llmVars, outcomeVars, sleeps>>

Digest ==
    /\ pc = "digest"
    /\ features' = Frames(runner)
    /\ max_frames' = DriverMaxFrames
    /\ max_objs_per_frame' = DriverMaxObjs
    /\ video_digest' =
         summarize_video_features(Frames(runner), DriverMaxFrames, DriverMaxObjs)
    /\ trace' = Append(trace, "summarize_video_features")
    /\ pc' = "build"
    /\ UNCHANGED <<validateVars, driverVars, promptVars, llmVars, outcomeVars, sleeps>>

Build ==
    /\ pc = "build"
    /\ system_prompt' = build_system_prompt
    /\ user_content' = build_user_content(mission, video_digest, prompt_id)
    /\ trace' = trace \o <<"build_system_prompt", "build_user_content">>
    /\ pc' = "call_llm"
    /\ UNCHANGED <<digestVars, validateVars, driverVars, user_text, mission,
                   caller_schema,
                   llmVars, outcomeVars, sleeps>>

KeyMissing_none_only(key) == key = NoneVal
KeyMissing(key) == ~Truthy(key)      \* `if not api_key`

CheckCredential ==
    /\ pc = "call_llm"
    /\ trace' = Append(trace, "call_llm")
    /\ IF KeyMissing(api_key)
       THEN Propagate("OPENAI_API_KEY not set.")
       ELSE pc' = "structured" /\ UNCHANGED outcomeVars
    /\ UNCHANGED <<digestVars, validateVars, driverVars, promptVars, llmVars, sleeps>>

(* client.responses.create(...) and the handling of its response: any      *)
(* exception, and a response without text, lead to the except branch.      *)
(* The response object stays in resp until the caller's next step.         *)
StructuredStep(except_branch) ==
    /\ pc = "structured"
    /\ \/ /\ requests' = Append(requests, Request("structured", "raised"))
          /\ resp' = NoResp
          /\ pc' = except_branch
          /\ UNCHANGED llm_response
       \/ \E t \in LLMTexts : \E r \in Responses(t) :
            IF Truthy(ExtractText(r))
            THEN /\ requests' = Append(requests, Request("structured", "text"))
                 /\ llm_response' = ExtractText(r)
                 /\ resp' = r
                 /\ pc' = "decode"
            ELSE /\ requests' = Append(requests, Request("structured", "empty"))
                 /\ resp' = r
                 /\ pc' = except_branch
                 /\ UNCHANGED llm_response
    /\ UNCHANGED <<digestVars, validateVars, driverVars, promptVars, outcomeVars,
                   trace, sleeps>>

StructuredRequest_retry == StructuredStep("structured")
StructuredRequest == StructuredStep("fallback")

(* client.chat.completions.create(...) in the except branch, and           *)
(* completion.choices[0].message.content.                                  *)
FallbackFailure(outcome, e) ==
    /\ requests' = Append(requests, Request("fallback", outcome))
    /\ resp' = NoResp
    /\ UNCHANGED llm_response
    /\ Propagate(e)

FallbackRequest_swallow ==
    /\ pc = "fallback"
    /\ \E outcome \in {"raised", "no_choice"} :
         /\ requests' = Append(requests, Request("fallback", outcome))
         /\ resp' = NoResp
         /\ llm_response' = ""
         /\ pc' = "decode"
         /\ UNCHANGED outcomeVars
    /\ UNCHANGED <<digestVars, validateVars, driverVars, promptVars, trace, sleeps>>

FallbackRequest ==
    /\ pc = "fallback"
    /\ \/ FallbackFailure("raised", "APIError")
       \/ FallbackFailure("no_choice", "IndexError: list index out of range")
       \/ \E t \in LLMTexts \cup {NoneVal} :
            /\ requests' = Append(requests, Request("fallback", "returned"))
            /\ resp' = NoResp
            /\ llm_response' = t
            /\ pc' = "decode"
            /\ UNCHANGED outcomeVars
    /\ UNCHANGED <<digestVars, validateVars, driverVars, promptVars, trace, sleeps>>

(* json.loads(out).  main prints the failure and the raw output and       *)
(* returns; in test_single_prompt the exception reaches `except`.          *)
DecodeStep(on_failure) ==
    /\ pc = "decode"
    /\ trace' = Append(trace, "json.loads")
    /\ LET r == json_loads(llm_response)
       IN IF r.ret = "raise"
          THEN /\ UNCHANGED validateVars
               /\ IF runner = "demo"
                  THEN /\ printed' =
                            <<Line("LLM did not return valid JSON:", r.error, NoPayload),
                              Line("Raw output:", llm_response, NoPayload)>>
                       /\ pc' = on_failure
                       /\ UNCHANGED <<exc, result, results>>
                  ELSE Propagate(r.error)
          ELSE /\ payload' = r.value
               /\ pc' = "validate"
               /\ UNCHANGED <<verdict, outcomeVars>>
    /\ resp' = NoResp
    /\ UNCHANGED <<digestVars, driverVars, promptVars, requests, llm_response, sleeps>>

Decode_no_return == DecodeStep("validate")
Decode == DecodeStep("done")

(* validate_payload(payload) and the report of its verdict.                *)
ValidateStepWith(retry) ==
    /\ pc = "validate"
    /\ trace' = Append(trace, "validate_payload")
    /\ LET v == validate_payload(payload)
       IN /\ verdict' = v
          /\ IF v.ret = "raise" THEN Propagate(v.msg)
             ELSE IF runner = "demo"
             THEN /\ printed' =
                       IF v.ok
                       THEN <<Line("SERVER PROMPT JSON (validated):", "", payload)>>
                       ELSE <<Line("Payload failed validation:", v.msg, payload)>>
                  /\ pc' = IF retry /\ ~v.ok THEN "call_llm" ELSE "done"
                  /\ UNCHANGED <<exc, result, results>>
             ELSE /\ result' = ResultRecord(v)
                  /\ pc' = IF retry /\ ~v.ok THEN "call_llm" ELSE "append"
                  /\ UNCHANGED <<exc, printed, results>>
    /\ UNCHANGED <<payload, digestVars, driverVars, promptVars, llmVars, sleeps>>

ValidateStep_retry == ValidateStepWith(TRUE)
ValidateStep == ValidateStepWith(FALSE)    \* no branch of either driver calls call_llm again

(* run_all_tests: results.append(result) and the status line.              *)
AppendResult ==
    /\ pc = "append"
    /\ results' = Append(results, result)
    /\ pc' = "sleep"
    /\ UNCHANGED <<digestVars, validateVars, driverVars, promptVars, llmVars,
                   exc, printed, result, trace, sleeps>>

(* run_all_tests: time.sleep(1), then the next command or the return.      *)
SleepStep(after_failure) ==
    /\ pc = "sleep"
    /\ sleeps' = IF after_failure \/ "error" \notin DOMAIN result THEN sleeps + 1 ELSE sleeps
    /\ IF prompt_id < NumPrompts
       THEN /\ prompt_id' = prompt_id + 1
            /\ pc' = "start"
            /\ user_text' = <<>>
            /\ mission' = NoMission /\ system_prompt' = NoPrompt
            /\ user_content' = NoContent
            /\ requests' = <<>> /\ llm_response' = NoneVal
            /\ payload' = NoPayload /\ verdict' = NoVerdict
            /\ features' = <<>> /\ max_frames' = 0 /\ max_objs_per_frame' = 0
            /\ video_digest' = <<>>
            /\ result' = NoResult
            /\ trace' = <<>>
       ELSE /\ pc' = "done"
            /\ UNCHANGED <<prompt_id, promptVars, requests, llm_response, validateVars,
                           digestVars, result, trace>>
    /\ UNCHANGED <<runner, api_key, caller_schema, resp, exc, printed, results>>

Sleep_not_after_failure == SleepStep(FALSE)
Sleep == SleepStep(TRUE)     \* time.sleep(1) is unconditional in the loop body

Next ==
    \/ Extract
    \/ Digest
    \/ Build
    \/ CheckCredential
    \/ StructuredRequest
    \/ FallbackRequest
    \/ Decode
    \/ ValidateStep
    \/ AppendResult
    \/ Sleep

Spec == Init /\ [][Next]_vars

(***************************************************************************)
(* Specification SpecDigest: summarize_video_features applied to every     *)
(* bounded input.                                                          *)
(***************************************************************************)
InitDigest ==
    /\ pc = "digest_input"
    /\ features \in FeatureSeqs
    /\ max_frames \in 0..MaxBound
    /\ max_objs_per_frame \in 0..MaxBound
    /\ video_digest = <<>>
    /\ ValidateIdle
    /\ PipelineIdle

Summarize ==
    /\ pc = "digest_input"
    /\ video_digest' = summarize_video_features(features, max_frames, max_objs_per_frame)
    /\ pc' = "digest_returned"
    /\ UNCHANGED <<features, max_frames, max_objs_per_frame, validateVars, pipelineVars>>

NextDigest == Summarize

SpecDigest == InitDigest /\ [][NextDigest]_vars

(***************************************************************************)
(* Specification SpecValidate: validate_payload applied to every decoded   *)
(* JSON value of the model.                                                *)
(***************************************************************************)
InitValidate ==
    /\ pc = "validate_input"
    /\ \E k \in JsonKinds : \E h \in TopHas(k) :
         \E m \in MemberOrAbsent(k = "object" /\ "mission" \in h, MissionKeys) :
         \E e \in MemberOrAbsent(k = "object" /\ "environment_summary" \in h, EnvKeys) :
         \E p \in MemberOrAbsent(k = "object" /\ "plan" \in h, PlanKeys) :
            payload = MkJson(k, h, m, e, p)
    /\ verdict = NoVerdict
    /\ DigestIdle
    /\ PipelineIdle

Validate_fill ==
    /\ pc = "validate_input"
    /\ verdict' = validate_payload(payload)
    /\ payload' = IF payload.kind = "object" THEN [payload EXCEPT !.has = TopKeys]
                  ELSE payload
    /\ pc' = "validate_returned"
    /\ UNCHANGED <<digestVars, pipelineVars>>

Validate ==
    /\ pc = "validate_input"
    /\ verdict' = validate_payload(payload)
    /\ pc' = "validate_returned"
    /\ UNCHANGED <<payload, digestVars, pipelineVars>>

NextValidate == Validate

SpecValidate == InitValidate /\ [][NextValidate]_vars

(***************************************************************************)
(* Specification SpecIntent: parse_user_prompt applied to every command    *)
(* text of at most MaxFragments fragments.  The fragments are the keyword  *)
(* phrases in several letter cases, words that contain a keyword phrase    *)
(* ("photograph", "12 mile"), another distance, the intent name "survey"   *)
(* and a phrase without any keyword.                                       *)
(***************************************************************************)
Fragments ==
    {"photo", "PHOTO", "photograph", "Picture", "coffee shop", "Coffee Shop",
     "red house", "open", "Open", "2 mile", "Two Mile", "12 mile", "1 mile",
     "survey", "go north"}

InitIntent ==
    /\ pc = "parse_input"
    /\ \E n \in 0..MaxFragments : user_text \in [1..n -> Fragments]
    /\ RunIdle
    /\ DigestIdle
    /\ ValidateIdle

Parse ==
    /\ pc = "parse_input"
    /\ mission' = parse_user_prompt(user_text)
    /\ pc' = "parse_returned"
    /\ UNCHANGED <<digestVars, validateVars, driverVars, user_text, system_prompt,
                   user_content, caller_schema, llmVars, outcomeVars, trace, sleeps>>

NextIntent == Parse

SpecIntent == InitIntent /\ [][NextIntent]_vars

(***************************************************************************)
(* Specification SpecShare: a caller calls parse_user_prompt,              *)
(* summarize_video_features and expected_payload_schema, may process       *)
(* another command, may modify in place one of the objects it got back,    *)
(* and then makes the three calls again with the same command text and the *)
(* same frame list.  mission, video_digest and caller_schema are the       *)
(* objects the first calls returned, features is the caller's frame list,  *)
(* and results holds what each round of calls returned, as it was on       *)
(* return.                                                                 *)
(*                                                                         *)
(* The mission, the digest frames, the digest objects and the schema are   *)
(* built anew by each call, so writing into them reaches nothing else.     *)
(* A digest object's box is `o.get("box")`: the very list of the input     *)
(* object, so writing into it writes into the caller's frame list too.     *)
(***************************************************************************)
ShareTexts == { <<"photo">>, <<"Coffee Shop", "Open">>, <<"go north">> }

Returned(m, digest, sch) == [mission |-> m, video_digest |-> digest, schema |-> sch]

CallAll ==
    Returned(parse_user_prompt(user_text),
             summarize_video_features(features, max_frames, max_objs_per_frame),
             expected_payload_schema)

InitShare ==
    /\ pc = "share_input"
    /\ user_text \in ShareTexts
    /\ features \in FeatureSeqs
    /\ max_frames = DriverMaxFrames
    /\ max_objs_per_frame = DriverMaxObjs
    /\ video_digest = <<>>
    /\ RunIdle
    /\ ValidateIdle

shareFrame == <<validateVars, driverVars, system_prompt, user_content, llmVars, exc,
                printed, result, sleeps, max_frames, max_objs_per_frame, user_text>>

CallFirst ==
    /\ pc = "share_input"
    /\ mission' = CallAll.mission
    /\ video_digest' = CallAll.video_digest
    /\ caller_schema' = CallAll.schema
    /\ results' = <<CallAll>>
    /\ pc' = "share_returned"
    /\ UNCHANGED <<shareFrame, features, trace>>

(* Another command goes through parse_user_prompt; its result is dropped.  *)
ProcessOther ==
    /\ pc = "share_returned"
    /\ trace = <<>>
    /\ \E other \in ShareTexts :
         trace' = <<parse_user_prompt(other).intent>>
    /\ UNCHANGED <<pc, shareFrame, features, mission, video_digest, caller_schema,
                   results>>

ModifyMission ==
    /\ pc = "share_returned"
    /\ mission' = [mission EXCEPT !.targets = Append(@, "added"),
                                  !.constraints = @ \cup {<<"added", 1>>}]
    /\ pc' = "share_modified"
    /\ UNCHANGED <<shareFrame, features, video_digest, caller_schema, results, trace>>

ModifySchema ==
    /\ pc = "share_returned"
    /\ caller_schema' = [caller_schema EXCEPT
                           !.required = <<>>,
                           !.properties.plan.required = Append(@, "added")]
    /\ pc' = "share_modified"
    /\ UNCHANGED <<shareFrame, features, mission, video_digest, results, trace>>

ModifyLabel ==
    /\ pc = "share_returned"
    /\ \E k \in 1..Len(video_digest) : \E j \in 1..Len(video_digest[k].objects) :
         video_digest' = [video_digest EXCEPT ![k].objects[j].label = "added"]
    /\ pc' = "share_modified"
    /\ UNCHANGED <<shareFrame, features, mission, caller_schema, results, trace>>

ModifyBox ==
    /\ pc = "share_returned"
    /\ \E k \in 1..Len(video_digest) : \E j \in 1..Len(video_digest[k].objects) :
         /\ video_digest' = [video_digest EXCEPT ![k].objects[j].box = 9]
         /\ features' = [features EXCEPT
                           ![Len(features) - Len(video_digest) + k].objects[j].box = 9]
    /\ pc' = "share_modified"
    /\ UNCHANGED <<shareFrame, mission, caller_schema, results, trace>>

CallLater ==
    /\ pc \in {"share_returned", "share_modified"}
    /\ results' = Append(results, CallAll)
    /\ pc' = "share_later"
    /\ UNCHANGED <<shareFrame, features, mission, video_digest, caller_schema, trace>>

NextShare ==
    \/ CallFirst
    \/ ProcessOther
    \/ ModifyMission
    \/ ModifySchema
    \/ ModifyLabel
    \/ ModifyBox
    \/ CallLater

SpecShare == InitShare /\ [][NextShare]_vars

(***************************************************************************)
(* Key presence as the contract means it: v is an object and k is one of   *)
(* its keys.                                                               *)
(***************************************************************************)
HasKey(v, k) == v.kind = "object" /\ k \in v.has
HasKeys(v, keys) == \A k \in keys : HasKey(v, k)

DigestReturned == pc = "digest_returned"
ValidateReturned == pc = "validate_returned"

(***************************************************************************)
(* Observations of a pipeline run.                                         *)
(***************************************************************************)
Last(seq) == seq[Len(seq)]
Modes(reqs) == [k \in 1..Len(reqs) |-> reqs[k].mode]
Called(step) == step \in Range(trace)

NoCredential == api_key \in {NoneVal, ""}       \* unset or empty
CallLLMFinished == Called("call_llm") /\ pc \notin {"structured", "fallback"}
TransportReturned ==
    CallLLMFinished /\ requests # <<>> /\ Last(requests).outcome \in {"text", "returned"}
RunEnded == pc \in {"done", "crashed", "append", "sleep"}

(* The exception call_llm's caller sees: uncaught in main, an error record *)
(* in the harness.                                                         *)
RaisedToCaller(e) ==
    IF runner = "demo" THEN pc = "crashed" /\ exc = e
    ELSE pc \in {"append", "sleep", "done"} /\ result = ErrorRecord(e)

(***************************************************************************)
(* C2: with a credential, the structured request comes first, the fallback *)
(* request is issued only after the structured path failed, each mode is   *)
(* issued at most once, and a finished call_llm has issued one or two      *)
(* requests.                                                               *)
(***************************************************************************)
C2_StructuredThenFallbackOnce ==
    ~NoCredential =>
        /\ Modes(requests) \in {<<>>, <<"structured">>, <<"structured", "fallback">>}
        /\ (Len(requests) >= 2 => requests[1].outcome \in {"raised", "empty"})
        /\ (CallLLMFinished => Len(requests) \in {1, 2})

C2_Witness ==
    /\ ~NoCredential
    /\ CallLLMFinished
    /\ Modes(requests) = <<"structured", "fallback">>
    /\ requests[1].outcome = "empty"
    /\ requests[2].outcome = "returned"

(***************************************************************************)
(* C3: without a credential (unset or empty) call_llm raises and issues no *)
(* request, neither the structured one nor the fallback one.               *)
(***************************************************************************)
C3_NoCredentialNoRequest ==
    NoCredential =>
        /\ requests = <<>>
        /\ llm_response = NoneVal
        /\ pc \notin {"structured", "fallback", "decode", "validate"}
        /\ (CallLLMFinished => RaisedToCaller("OPENAI_API_KEY not set."))

C3_Witness ==
    /\ api_key = ""
    /\ CallLLMFinished
    /\ requests = <<>>
    /\ RaisedToCaller("OPENAI_API_KEY not set.")

(***************************************************************************)
(* C4: when the structured request fails and the fallback request fails    *)
(* too, call_llm returns no value, the fallback's failure reaches the      *)
(* caller of call_llm, and no further request is made.                     *)
(***************************************************************************)
FallbackError(outcome) ==
    IF outcome = "raised" THEN "APIError" ELSE "IndexError: list index out of range"

C4_FallbackFailurePropagates ==
    (Len(requests) >= 2 /\ requests[2].outcome \in {"raised", "no_choice"}) =>
        /\ requests[1].outcome \in {"raised", "empty"}
        /\ Len(requests) = 2
        /\ llm_response = NoneVal
        /\ ~Called("json.loads")
        /\ RaisedToCaller(FallbackError(requests[2].outcome))

C4_Witness ==
    /\ Len(requests) = 2
    /\ requests[1].outcome = "raised"
    /\ requests[2].outcome = "raised"
    /\ runner = "demo"
    /\ pc = "crashed"
    /\ exc = "APIError"

(***************************************************************************)
(* C5: a run whose transport call returned a response ends in exactly one  *)
(* of ParseFailed, Invalid, Validated; Validated only after a successful   *)
(* decode and a passing validation; ParseFailed and Invalid are reported   *)
(* in the run's outcome with their message.                                *)
(***************************************************************************)
ParseFailed ==
    /\ json_loads(llm_response).ret = "raise"
    /\ IF runner = "demo"
       THEN printed # <<>>
            /\ printed[1] = Line("LLM did not return valid JSON:",
                                 json_loads(llm_response).error, NoPayload)
       ELSE result = ErrorRecord(json_loads(llm_response).error)

Invalid ==
    /\ verdict.ret = "return" /\ ~verdict.ok
    /\ IF runner = "demo"
       THEN printed = <<Line("Payload failed validation:", verdict.msg, payload)>>
       ELSE result = ResultRecord(verdict)

Validated ==
    /\ json_loads(llm_response).ret = "return"
    /\ payload = json_loads(llm_response).value
    /\ verdict = Return(TRUE, "ok")
    /\ IF runner = "demo"
       THEN printed = <<Line("SERVER PROMPT JSON (validated):", "", payload)>>
       ELSE result = ResultRecord(verdict)

ExactlyOne(a, b, c) == (a /\ ~b /\ ~c) \/ (~a /\ b /\ ~c) \/ (~a /\ ~b /\ c)

C5_RunStateMachine ==
    (RunEnded /\ TransportReturned) => ExactlyOne(ParseFailed, Invalid, Validated)

(***************************************************************************)
(* C6: when the transport's text does not decode as JSON the run ends as a *)
(* parse failure: validate_payload is not called in that run, and the      *)
(* outcome carries no validation verdict or missing-field message.         *)
(***************************************************************************)
C6_ParseFailureWithoutValidation ==
    (Called("json.loads") /\ llm_response \notin JsonTexts) =>
        /\ ~Called("validate_payload")
        /\ verdict = NoVerdict
        /\ IF runner = "demo"
           THEN /\ pc = "done"
                /\ Len(printed) = 2
                /\ printed[1].line = "LLM did not return valid JSON:"
                /\ printed[2] = Line("Raw output:", llm_response, NoPayload)
           ELSE /\ pc \in {"append", "sleep", "done"}
                /\ "error" \in DOMAIN result
                /\ "is_valid" \notin DOMAIN result
                /\ "validation_msg" \notin DOMAIN result

C6_Witness ==
    /\ Called("json.loads")
    /\ llm_response = "not json"
    /\ runner = "harness"
    /\ pc = "sleep"
    /\ results # <<>>
    /\ "error" \in DOMAIN Last(results)
    /\ "is_valid" \notin DOMAIN Last(results)

(* The input frame that digest frame k is taken from: the tail of features. *)
SourceFrame(k) == features[Len(features) - Len(video_digest) + k]

(***************************************************************************)
(* C1: for positive bounds the digest has min(len(input), max_frames)      *)
(* frames, digest frame k has min(len(objects of its input frame),         *)
(* max_objs_per_frame) objects, and the digest frames are the last input   *)
(* frames in their original order.                                        *)
(***************************************************************************)
C1_DigestShape ==
    (DigestReturned /\ max_frames >= 1 /\ max_objs_per_frame >= 1) =>
        /\ Len(video_digest) = Min(Len(features), max_frames)
        /\ \A k \in 1..Len(video_digest) :
             /\ video_digest[k].ts = SourceFrame(k).ts
             /\ Len(video_digest[k].objects) =
                  Min(Len(InputObjects(SourceFrame(k))), max_objs_per_frame)

C1_Witness ==
    /\ DigestReturned
    /\ max_frames = 1 /\ max_objs_per_frame = 1
    /\ Len(features) = 2
    /\ Len(InputObjects(features[2])) = 2
    /\ Len(video_digest) = 1
    /\ video_digest[1].ts = 2
    /\ Len(video_digest[1].objects) = 1

(***************************************************************************)
(* C7: a document with all six required top-level keys and the schema's    *)
(* required sub-keys under mission, environment_summary and plan is        *)
(* accepted with (true, "ok").                                             *)
(***************************************************************************)
SchemaRequired(k) == Range(expected_payload_schema.properties[k].required)

WellFormedDocument(p) ==
    /\ HasKeys(p, TopKeys)
    /\ HasKeys(p.mission, SchemaRequired("mission"))
    /\ HasKeys(p.environment_summary, SchemaRequired("environment_summary"))
    /\ HasKeys(p.plan, SchemaRequired("plan"))

C7_WellFormedAccepted ==
    (ValidateReturned /\ WellFormedDocument(payload)) => verdict = Return(TRUE, "ok")

C7_Witness ==
    ValidateReturned /\ WellFormedDocument(payload) /\ verdict.ok

(***************************************************************************)
(* C8: validate_payload returns ok = true only for a document that has    *)
(* all six top-level keys, intent, targets, constraints and success under  *)
(* mission, video_digest under environment_summary and next_action under   *)
(* plan.                                                                   *)
(***************************************************************************)
AllChecksPass(p) ==
    /\ HasKeys(p, TopKeys)
    /\ HasKeys(p.mission, MissionKeys)
    /\ HasKey(p.environment_summary, "video_digest")
    /\ HasKey(p.plan, "next_action")

C8_OkOnlyIfAllChecksPass ==
    (ValidateReturned /\ verdict.ret = "return" /\ verdict.ok) => AllChecksPass(payload)

(***************************************************************************)
(* C9: the checks run in a fixed order and the first failing one is        *)
(* reported: missing top-level keys (all of them, in schema order), then   *)
(* the first missing mission sub-key, then environment_summary.video_digest,*)
(* then plan.next_action; (true, "ok") when none fails.                    *)
(***************************************************************************)
AbsentKeys(order, v) == SelectSeq(order, LAMBDA k : ~HasKey(v, k))

OrderedChecks(p) ==
    LET top == AbsentKeys(expected_payload_schema.required, p)
        mis == AbsentKeys(MissionOrder, p.mission)
    IN IF top # <<>> THEN Return(FALSE, MissingKeysMsg(top))
       ELSE IF mis # <<>> THEN Return(FALSE, "mission." \o Head(mis) \o " missing")
       ELSE IF ~HasKey(p.environment_summary, "video_digest")
            THEN Return(FALSE, "environment_summary.video_digest missing")
       ELSE IF ~HasKey(p.plan, "next_action")
            THEN Return(FALSE, "plan.next_action missing")
       ELSE Return(TRUE, "ok")

C9_FixedCheckOrder == ValidateReturned => verdict = OrderedChecks(payload)

(***************************************************************************)
(* C10: with all six top-level keys present and a mission lacking one of   *)
(* intent, targets, constraints, success, the result is                    *)
(* (false, "mission.<k> missing") for the first missing <k>.               *)
(***************************************************************************)
C10_FirstMissingMissionKey ==
    (ValidateReturned /\ HasKeys(payload, TopKeys)
        /\ AbsentKeys(MissionOrder, payload.mission) # <<>>) =>
      verdict = Return(FALSE,
                  "mission." \o Head(AbsentKeys(MissionOrder, payload.mission))
                             \o " missing")

(***************************************************************************)
(* Command texts as the contract reads them.  Containing(phrase) is the    *)
(* set of fragments that contain the phrase in some letter case;           *)
(* StatedMiles(f) is the distance in miles the fragment f states (0 when   *)
(* it states none).                                                        *)
(***************************************************************************)
ParseReturned == pc = "parse_returned"

Containing(phrase) ==
    CASE phrase = "photo" -> {"photo", "Photo", "PHOTO", "photograph"}
      [] phrase = "picture" -> {"picture", "Picture"}
      [] phrase = "coffee shop" -> {"coffee shop", "Coffee Shop"}
      [] phrase = "red house" -> {"red house", "Red House"}
      [] phrase = "open" -> {"open", "Open"}
      [] phrase = "2 mile" -> {"2 mile", "12 mile"}
      [] phrase = "two mile" -> {"two mile", "Two Mile"}

Mentions(phrase) == \E k \in 1..Len(user_text) : user_text[k] \in Containing(phrase)

MentionsPhoto == Mentions("photo") \/ Mentions("picture")

StatedMiles(f) ==
    CASE f \in {"2 mile", "two mile", "Two Mile"} -> 2
      [] f = "12 mile" -> 12
      [] f = "1 mile" -> 1
      [] OTHER -> 0

StatesMiles(n) == \E k \in 1..Len(user_text) : StatedMiles(user_text[k]) = n

(***************************************************************************)
(* C11: for every command text that contains "photo" or "picture" in any   *)
(* letter case, whatever other keywords it contains, parse_user_prompt     *)
(* returns intent capture_photo and success = {photo_saved: true}.         *)
(***************************************************************************)
C11_PhotoIntent ==
    (ParseReturned /\ MentionsPhoto) =>
        /\ mission.intent = "capture_photo"
        /\ mission.success = {<<"photo_saved", TRUE>>}

C11_Witness ==
    /\ ParseReturned
    /\ \E k \in 1..Len(user_text) : user_text[k] = "PHOTO"
    /\ Mentions("coffee shop")
    /\ mission.intent = "capture_photo"

(***************************************************************************)
(* C12: for every command text that contains "coffee shop" and neither     *)
(* "photo" nor "picture", parse_user_prompt returns intent search_poi, and *)
(* when the text also contains "open" the targets include "open_now".      *)
(***************************************************************************)
C12_CoffeeShopIntent ==
    (ParseReturned /\ Mentions("coffee shop") /\ ~MentionsPhoto) =>
        /\ mission.intent = "search_poi"
        /\ Mentions("open") => "open_now" \in Range(mission.targets)

C12_Witness ==
    /\ ParseReturned
    /\ Mentions("coffee shop") /\ ~MentionsPhoto /\ Mentions("open")
    /\ mission.intent = "search_poi"
    /\ "open_now" \in Range(mission.targets)

(***************************************************************************)
(* C13: for every command text that contains none of "photo", "picture",   *)
(* "coffee shop", "red house", "2 mile" and "two mile", parse_user_prompt  *)
(* returns intent navigate, targets ["target"], empty constraints and      *)
(* empty success criteria.                                                 *)
(***************************************************************************)
NoRecognizedKeyword ==
    \A phrase \in {"photo", "picture", "coffee shop", "red house", "2 mile", "two mile"} :
        ~Mentions(phrase)

C13_DefaultMission ==
    (ParseReturned /\ NoRecognizedKeyword) =>
        /\ mission.intent = "navigate"
        /\ mission.targets = <<"target">>
        /\ mission.constraints = {}
        /\ mission.success = {}

C13_Witness ==
    /\ ParseReturned
    /\ NoRecognizedKeyword
    /\ Mentions("open")
    /\ StatesMiles(1)
    /\ mission.targets = <<"target">>

(***************************************************************************)
(* C15: when the transport returned a text that json.loads rejects, the    *)
(* run ends as a failed run and its outcome holds the raw transport text:  *)
(* the demo runner prints it, the harness keeps it in the result record.   *)
(***************************************************************************)
RawTextPreserved ==
    IF runner = "demo"
    THEN \E k \in 1..Len(printed) : printed[k] = Line("Raw output:", llm_response, NoPayload)
    ELSE "llm_response" \in DOMAIN result /\ result.llm_response = llm_response

C15_RawTextPreserved ==
    (RunEnded /\ TransportReturned /\ llm_response # NoneVal
              /\ json_loads(llm_response).ret = "raise") =>
        /\ ParseFailed
        /\ RawTextPreserved

(***************************************************************************)
(* C16: in every run call_llm is invoked at most once; after a failed      *)
(* validation the run has ended with the validator's message and the       *)
(* decoded document unchanged in its outcome, validate_payload is the last *)
(* step called, and the transport saw no request beyond the one structured *)
(* and at most one fallback request of that single call.                   *)
(***************************************************************************)
Calls(step) == Len(SelectSeq(trace, LAMBDA s : s = step))

ValidationFailed == verdict.ret = "return" /\ ~verdict.ok

C16_NoRepairNoRetry ==
    /\ Calls("call_llm") <= 1
    /\ ValidationFailed =>
         /\ RunEnded
         /\ Invalid
         /\ payload = json_loads(llm_response).value
         /\ Last(trace) = "validate_payload"
         /\ Modes(requests) \in {<<"structured">>, <<"structured", "fallback">>}

C16_Witness ==
    /\ ValidationFailed
    /\ RunEnded
    /\ Modes(requests) = <<"structured", "fallback">>
    /\ verdict.msg = "mission.targets missing"
    /\ Calls("call_llm") = 1

(***************************************************************************)
(* C17: every document validate_payload accepts has every key the schema   *)
(* lists as required, at the top level and under mission,                  *)
(* environment_summary and plan.                                           *)
(***************************************************************************)
C17_AcceptedHasSchemaRequired ==
    (ValidateReturned /\ verdict = Return(TRUE, "ok")) => WellFormedDocument(payload)

(***************************************************************************)
(* C17, amended: the checks of validate_payload lie within the schema.     *)
(* An accepted document has the six top-level keys the schema requires,    *)
(* and a rejection names either required top-level keys of the schema that *)
(* the document lacks or one sub-key that the schema requires under        *)
(* mission, environment_summary or plan and that the document lacks.       *)
(* Acceptance does not need plan.high_level_steps, which the schema        *)
(* requires.                                                               *)
(***************************************************************************)
CheckedMembers == {"mission", "environment_summary", "plan"}

C17_ChecksWithinSchema ==
    (ValidateReturned /\ verdict.ret = "return") =>
        IF verdict.ok THEN HasKeys(payload, TopKeys)
        ELSE \/ \E lacking \in SUBSET TopKeys :
                  /\ lacking # {}
                  /\ \A k \in lacking : ~HasKey(payload, k)
                  /\ verdict.msg =
                       MissingKeysMsg(SelectSeq(expected_payload_schema.required,
                                                LAMBDA k : k \in lacking))
             \/ \E k \in CheckedMembers : \E s \in SchemaRequired(k) :
                  /\ verdict.msg = k \o "." \o s \o " missing"
                  /\ ~HasKey(payload[k], s)

C17_Witness ==
    /\ ValidateReturned
    /\ verdict = Return(TRUE, "ok")
    /\ \A k \in CheckedMembers : payload[k].kind = "object"
    /\ "high_level_steps" \notin payload.plan.has

(***************************************************************************)
(* C18: for non-negative bounds, 0 included, the digest never has more     *)
(* than max_frames frames and no digest frame has more than                *)
(* max_objs_per_frame objects.                                             *)
(***************************************************************************)
C18_DigestWithinBounds ==
    (DigestReturned /\ max_frames >= 0 /\ max_objs_per_frame >= 0) =>
        /\ Len(video_digest) <= max_frames
        /\ \A k \in 1..Len(video_digest) :
             Len(video_digest[k].objects) <= max_objs_per_frame

(***************************************************************************)
(* C19: a command text that contains "photo" or "picture" and also         *)
(* "coffee shop" gets intent capture_photo while its targets still include *)
(* "coffee shop"; the targets are listed in the order "red house",         *)
(* "coffee shop", "open_now", each only when its phrase occurs and         *)
(* "open_now" only together with "coffee shop"; and the targets are        *)
(* ["target"] exactly when neither "red house" nor "coffee shop" occurs.   *)
(***************************************************************************)
TargetOccurs(target) ==
    CASE target = "red house" -> Mentions("red house")
      [] target = "coffee shop" -> Mentions("coffee shop")
      [] target = "open_now" -> Mentions("coffee shop") /\ Mentions("open")

C19_PrecedenceAndTargets ==
    ParseReturned =>
        /\ (MentionsPhoto /\ Mentions("coffee shop")) =>
               /\ mission.intent = "capture_photo"
               /\ "coffee shop" \in Range(mission.targets)
        /\ \/ mission.targets = <<"target">>
           \/ /\ mission.targets # <<>>
              /\ mission.targets =
                   SelectSeq(<<"red house", "coffee shop", "open_now">>, TargetOccurs)
        /\ (mission.targets = <<"target">>) <=>
               (~Mentions("red house") /\ ~Mentions("coffee shop"))

C19_Witness ==
    /\ ParseReturned
    /\ user_text = <<"Coffee Shop", "red house", "photo">>
    /\ mission.intent = "capture_photo"
    /\ mission.targets = <<"red house", "coffee shop">>

(***************************************************************************)
(* C20: parse_user_prompt returns constraints = {radius_m: 3218} exactly   *)
(* when the command states a distance of two miles, whatever the intent,   *)
(* and empty constraints for every other command, including one that       *)
(* states a different distance.                                            *)
(***************************************************************************)
C20_RadiusOnlyForTwoMiles ==
    ParseReturned =>
        IF StatesMiles(2)
        THEN mission.constraints = {<<"radius_m", 3218>>}
        ELSE mission.constraints = {}

(***************************************************************************)
(* C21: for every command text the mission parse_user_prompt returns has   *)
(* an intent among the declared intent names, a non-empty targets          *)
(* sequence and an empty ambiguities sequence; the intent "survey" is      *)
(* never produced.                                                         *)
(***************************************************************************)
C21_MissionIntentShape ==
    ParseReturned =>
        /\ mission.intent \in IntentTaxonomy
        /\ mission.intent # "survey"
        /\ mission.targets # <<>>
        /\ mission.ambiguities = <<>>

C21_Witness ==
    /\ ParseReturned
    /\ \E k \in 1..Len(user_text) : user_text[k] = "survey"
    /\ ~Mentions("red house") /\ ~Mentions("coffee shop")
    /\ mission.intent = "navigate"
    /\ mission.targets = <<"target">>

(***************************************************************************)
(* The text a structured response carries: its output_text when that is    *)
(* non-empty, else the first non-empty text among the output_text chunks   *)
(* of its output list, else none.                                          *)
(***************************************************************************)
CarriedText(r) ==
    IF r.output_text \notin {NoneVal, ""} THEN r.output_text
    ELSE LET texts == SelectSeq(r.output,
                        LAMBDA c : c.type = "output_text" /\ c.text \notin {NoneVal, ""})
         IN IF r.is_list /\ texts # <<>> THEN texts[1].text ELSE NoneVal

StructuredReturned == pc = "decode" /\ Last(requests) = Request("structured", "text")
StructuredEmpty == pc = "fallback" /\ Last(requests) = Request("structured", "empty")

(***************************************************************************)
(* C22: in call_llm a structured response that carries no text leads to    *)
(* the except branch, whose next step is the fallback request; a           *)
(* structured response that carries text makes call_llm return exactly     *)
(* that text, and then no fallback request is issued in that call.         *)
(***************************************************************************)
C22_EmptyStructuredFallsBack ==
    /\ [](StructuredEmpty => CarriedText(resp) = NoneVal)
    /\ [](StructuredReturned =>
            /\ CarriedText(resp) # NoneVal
            /\ llm_response = CarriedText(resp))
    /\ []((requests # <<>> /\ requests[1].outcome = "text") => Len(requests) = 1)
    /\ [][StructuredEmpty =>
            requests' = Append(requests, Request("fallback", Last(requests').outcome))]_vars

C22_Witness ==
    /\ StructuredReturned
    /\ resp.output_text = ""
    /\ resp.is_list
    /\ Len(resp.output) = 2
    /\ resp.output[1].type = "message"
    /\ llm_response = T_valid

C22_WitnessFallback ==
    /\ Len(requests) = 2
    /\ requests[1] = Request("structured", "empty")
    /\ requests[2].mode = "fallback"

(***************************************************************************)
(* C23: a call of validate_payload, whatever it returns or raises, leaves  *)
(* the document it was given, and everything else, as it was.              *)
(***************************************************************************)
C23_ValidateLeavesDocument ==
    [][pc = "validate_input" =>
         /\ pc' = "validate_returned"
         /\ payload' = payload
         /\ UNCHANGED <<digestVars, pipelineVars>>]_vars

C23_Witness ==
    /\ ValidateReturned
    /\ verdict = Return(FALSE, "plan.next_action missing")
    /\ payload.plan.kind = "object"
    /\ payload.plan.has = {"high_level_steps"}

(***************************************************************************)
(* C24: an empty input gives an empty digest; otherwise object j of digest *)
(* frame k has the label and box of object j of the input frame that       *)
(* digest frame k is taken from, the frame keeps its timestamp, an object  *)
(* without a score gets score 0, and the input frames stay as they were.   *)
(***************************************************************************)
PassedThrough(d, o) ==
    /\ d.label = o.label
    /\ d.box = o.box
    /\ "score" \notin DOMAIN o => d.score = 0

C24_PositionalPassThrough ==
    /\ [](DigestReturned =>
            /\ features = <<>> => video_digest = <<>>
            /\ Len(video_digest) <= Len(features)
            /\ \A k \in 1..Len(video_digest) :
                 /\ video_digest[k].ts = SourceFrame(k).ts
                 /\ Len(video_digest[k].objects) <= Len(InputObjects(SourceFrame(k)))
                 /\ \A j \in 1..Len(video_digest[k].objects) :
                      PassedThrough(video_digest[k].objects[j],
                                    InputObjects(SourceFrame(k))[j]))
    /\ [][features' = features]_vars

C24_Witness ==
    /\ DigestReturned
    /\ Len(features) = 2
    /\ max_frames = 1 /\ max_objs_per_frame = 1
    /\ Len(InputObjects(features[2])) = 2
    /\ "score" \notin DOMAIN InputObjects(features[2])[1]
    /\ "score" \in DOMAIN InputObjects(features[2])[2]
    /\ Len(video_digest) = 1
    /\ video_digest[1].objects = << [label |-> "car", score |-> 0, box |-> 2] >>

(***************************************************************************)
(* C25: in the harness the steps of a run are called in the order extract, *)
(* digest, build prompts, call transport, decode, validate; while the run  *)
(* of command i is under way the records of commands 1..i-1 have been      *)
(* appended and i-1 delays have elapsed, and a delay follows every run,    *)
(* failed ones included.                                                   *)
(***************************************************************************)
StepOrder ==
    <<"parse_user_prompt", "summarize_video_features", "build_system_prompt",
      "build_user_content", "call_llm", "json.loads", "validate_payload">>

RunUnderWay ==
    pc \in {"start", "digest", "build", "call_llm", "structured", "fallback",
            "decode", "validate", "append"}

C25_SequentialHarness ==
    runner = "harness" =>
        /\ Len(trace) <= Len(StepOrder)
        /\ trace = SubSeq(StepOrder, 1, Len(trace))
        /\ RunUnderWay => Len(results) = prompt_id - 1 /\ sleeps = prompt_id - 1
        /\ pc = "sleep" => Len(results) = prompt_id /\ sleeps = prompt_id - 1
        /\ pc = "done" => Len(results) = prompt_id /\ sleeps = prompt_id
        /\ \A k \in 1..Len(results) : results[k].prompt_id = k

C25_Witness ==
    /\ runner = "harness"
    /\ prompt_id = 2
    /\ pc = "validate"
    /\ "error" \in DOMAIN results[1]
    /\ sleeps = 1
    /\ trace = SubSeq(StepOrder, 1, 6)

(***************************************************************************)
(* C28: run_all_tests ends with exactly one record per prompt, in prompt   *)
(* order, record k carrying prompt_id k; a failure of a step of a run (no  *)
(* credential, both transport modes failed, undecodable response,          *)
(* validator exception) is held as an error record of that prompt, never   *)
(* leaves the harness, and the harness always has a next step until the    *)
(* last prompt's record is appended and run_all_tests returns.             *)
(***************************************************************************)
RunFailed ==
    \/ Called("call_llm") /\ NoCredential
    \/ /\ requests # <<>>
       /\ Last(requests).mode = "fallback"
       /\ Last(requests).outcome \in {"raised", "no_choice"}
    \/ Called("json.loads") /\ json_loads(llm_response).ret = "raise"
    \/ verdict.ret = "raise"

C28_RecordPerPrompt ==
    runner = "harness" =>
        /\ pc # "crashed" /\ exc = ""
        /\ Len(results) <= NumPrompts
        /\ \A k \in 1..Len(results) :
             /\ results[k].prompt_id = k
             /\ results[k].prompt_text = Prompts("harness")[k]
        /\ pc \in {"append", "sleep"} =>
             /\ result.prompt_id = prompt_id
             /\ RunFailed <=> "error" \in DOMAIN result
        /\ IF pc = "done" THEN Len(results) = NumPrompts ELSE ENABLED Next

C28_Witness ==
    /\ runner = "harness"
    /\ pc = "done"
    /\ Len(results) = NumPrompts
    /\ "error" \in DOMAIN results[1]
    /\ results[1].error = NotIterable
    /\ "is_valid" \in DOMAIN results[2]

(***************************************************************************)
(* C27: for every value JSON decoding can produce, validate_payload        *)
(* returns an (ok, message) result and does not raise; this includes a     *)
(* top-level value that is not an object and a mission,                    *)
(* environment_summary or plan that is present but not an object.          *)
(***************************************************************************)
C27_ValidateNeverRaises ==
    ValidateReturned => verdict.ret = "return"

(***************************************************************************)
(* C26: what the calls return for a command text and a frame list does not *)
(* depend on the commands processed before, nor on what the caller did to  *)
(* the mission, digest or schema an earlier call returned: the later round *)
(* of calls returns what the first round returned.                         *)
(***************************************************************************)
C26_NoSharedState ==
    pc = "share_later" => results[2] = results[1]
====
